---------------------------- MODULE Spec2Model ----------------------------
(***************************************************************************)
(* Model of the `elm-json new` wizard (src/lib/cli/new.rs): the validators *)
(* for the package name, the summary and the license, the retry loop       *)
(* until_valid, the construction of the Project value and the creation of  *)
(* elm.json.                                                               *)
(*                                                                         *)
(* A Rust String is modelled as the sequence of its chars, each char being *)
(* its Unicode scalar value.  str::len() is the number of UTF-8 bytes, so  *)
(* it is computed from the encoded width of every char.                    *)
(***************************************************************************)
EXTENDS Integers, Sequences, FiniteSets, TLC

(***************************************************************************)
(* Bounds of the model.                                                    *)
(***************************************************************************)
\* every string over Alphabet of at most MaxLen chars is offered as a name
MaxLen == 3
\* prompts a single until_valid call may issue before the user gives up
MaxPrompts == 2
\* summaries are offered with lengths up to Slack over the limit and over its half
Slack == 1

(***************************************************************************)
(* Characters.                                                             *)
(***************************************************************************)
DASH == 45
SLASH == 47

\* the characters the user's input is made of
CH == [ space |-> 32, newline |-> 10, nbsp |-> 160, e_acute |-> 233,
        lower_a |-> 97, upper_b |-> 66, digit_1 |-> 49, underscore |-> 95 ]

\* char::len_utf8
len_utf8(c) ==
    IF c < 128 THEN 1
    ELSE IF c < 2048 THEN 2
    ELSE IF c < 65536 THEN 3
    ELSE 4

\* char::is_whitespace (Unicode White_Space)
is_whitespace(c) ==
    \/ c \in 9..13
    \/ c = 32
    \/ c = 133
    \/ c = 160
    \/ c = 5760
    \/ c \in 8192..8202
    \/ c \in {8232, 8233, 8239, 8287, 12288}

is_ascii_lowercase(c) == c \in 97..122

is_ascii_uppercase(c) == c \in 65..90

\* char::is_digit(10)
is_digit10(c) == c \in 48..57

is_ascii_alphanumeric(c) ==
    is_ascii_lowercase(c) \/ is_ascii_uppercase(c) \/ is_digit10(c)

(***************************************************************************)
(* Strings.                                                                *)
(***************************************************************************)
RECURSIVE str_len(_)
\* str::len(): the length in bytes of the UTF-8 encoding
str_len(s) ==
    IF s = <<>> THEN 0
    ELSE IF Len(s) = 1 THEN len_utf8(s[1])
    ELSE LET half == Len(s) \div 2
         IN  str_len(SubSeq(s, 1, half)) + str_len(SubSeq(s, half + 1, Len(s)))

\* str::chars().count()
chars_count(s) == Len(s)

RECURSIVE trim_start(_)
trim_start(s) ==
    IF s # <<>> /\ is_whitespace(Head(s)) THEN trim_start(Tail(s)) ELSE s

RECURSIVE trim_end(_)
trim_end(s) ==
    IF s # <<>> /\ is_whitespace(s[Len(s)])
    THEN trim_end(SubSeq(s, 1, Len(s) - 1))
    ELSE s

\* str::trim()
trim(s) == trim_end(trim_start(s))

RECURSIVE split(_, _)
\* str::split(sep).collect(): always at least one segment
split(s, sep) ==
    IF \E i \in 1..Len(s) : s[i] = sep
    THEN LET i == CHOOSE k \in 1..Len(s) :
                     s[k] = sep /\ \A j \in 1..(k - 1) : s[j] # sep
         IN  <<SubSeq(s, 1, i - 1)>> \o split(SubSeq(s, i + 1, Len(s)), sep)
    ELSE <<s>>

starts_with(s, c) == s # <<>> /\ s[1] = c

ends_with(s, c) == s # <<>> /\ s[Len(s)] = c

\* str::contains("--")
contains_double_dash(s) ==
    \E i \in 1..(Len(s) - 1) : s[i] = DASH /\ s[i + 1] = DASH

Range(f) == {f[i] : i \in DOMAIN f}

(***************************************************************************)
(* Result<String, Error>; a panic is a third outcome.                      *)
(***************************************************************************)
Ok(v) == [kind |-> "Ok", val |-> v, err |-> ""]

Err(e) == [kind |-> "Err", val |-> <<>>, err |-> e]

Panic == [kind |-> "Panic", val |-> <<>>, err |-> ""]

(***************************************************************************)
(* Error messages.                                                         *)
(***************************************************************************)
ERR_SUMMARY_LONG == "Summary may not be over 80 characters long."
ERR_MALFORMED == "A valid package name look like \"author/project\""
ERR_AUTHOR_EMPTY == "Author name may not be empty. A valid package name looks like \"author/project\"."
ERR_AUTHOR_LEADING_DASH == "Author name may not start with a dash. Please use your github username!"
ERR_AUTHOR_TRAILING_DASH == "Author name may not end with a dash. Please user your github username!"
ERR_AUTHOR_DOUBLE_DASH == "Author name may not contain a double dash. Please use your github username!"
ERR_AUTHOR_LONG == "Author name may not be over 39 characters long. Please use your github username!"
ERR_AUTHOR_CHARS == "Author name may only contain ascii alphanumeric characters."
ERR_PROJECT_EMPTY == "Project name maybe not be empty. A valid package name looks like \"author/project\"."
ERR_PROJECT_DOUBLE_DASH == "Project name cannot contain a double dash."
ERR_PROJECT_TRAILING_DASH == "Project name cannot end with a dash."
ERR_PROJECT_CHARS == "Project name may only contains lowercase letters, digits and dashes."
ERR_PROJECT_START == "Project name must start with a letter"
ERR_LICENSE == "Please pick a valid license"

MaxSummaryLen == 80
MaxAuthorLen == 39

(***************************************************************************)
(* The validators.                                                         *)
(***************************************************************************)
validate_summary(summary) ==
    IF str_len(summary) > MaxSummaryLen
    THEN Err(ERR_SUMMARY_LONG)
    ELSE Ok(summary)

\* variant: the length limit is off by one
validate_author_off_by_one(author) ==
    IF author = <<>> THEN Err(ERR_AUTHOR_EMPTY)
    ELSE IF starts_with(author, DASH) THEN Err(ERR_AUTHOR_LEADING_DASH)
    ELSE IF ends_with(author, DASH) THEN Err(ERR_AUTHOR_TRAILING_DASH)
    ELSE IF contains_double_dash(author) THEN Err(ERR_AUTHOR_DOUBLE_DASH)
    ELSE IF str_len(author) >= MaxAuthorLen THEN Err(ERR_AUTHOR_LONG)
    ELSE IF ~ \A i \in 1..Len(author) :
                 is_ascii_alphanumeric(author[i]) \/ author[i] = DASH
         THEN Err(ERR_AUTHOR_CHARS)
    ELSE Ok(<<>>)

validate_author(author) ==
    IF author = <<>> THEN Err(ERR_AUTHOR_EMPTY)
    ELSE IF starts_with(author, DASH) THEN Err(ERR_AUTHOR_LEADING_DASH)
    ELSE IF ends_with(author, DASH) THEN Err(ERR_AUTHOR_TRAILING_DASH)
    ELSE IF contains_double_dash(author) THEN Err(ERR_AUTHOR_DOUBLE_DASH)
    ELSE IF str_len(author) > MaxAuthorLen THEN Err(ERR_AUTHOR_LONG)
    ELSE IF ~ \A i \in 1..Len(author) :
                 is_ascii_alphanumeric(author[i]) \/ author[i] = DASH
         THEN Err(ERR_AUTHOR_CHARS)
    ELSE Ok(<<>>)

\* chars().nth(0).unwrap(): panics on the empty string
first_char_unwrap(s) == IF s = <<>> THEN Panic ELSE Ok(<<s[1]>>)

\* variant: the check for the empty project is missing
validate_project_no_empty_check(project) ==
    IF contains_double_dash(project) THEN Err(ERR_PROJECT_DOUBLE_DASH)
    ELSE IF ends_with(project, DASH) THEN Err(ERR_PROJECT_TRAILING_DASH)
    ELSE IF ~ \A i \in 1..Len(project) :
                 \/ is_ascii_lowercase(project[i])
                 \/ is_digit10(project[i])
                 \/ project[i] = DASH
         THEN Err(ERR_PROJECT_CHARS)
    ELSE LET first == first_char_unwrap(project)
         IN  IF first.kind = "Panic" THEN Panic
             ELSE IF ~ is_ascii_lowercase(first.val[1]) THEN Err(ERR_PROJECT_START)
             ELSE Ok(<<>>)

validate_project(project) ==
    IF project = <<>> THEN Err(ERR_PROJECT_EMPTY)
    ELSE IF contains_double_dash(project) THEN Err(ERR_PROJECT_DOUBLE_DASH)
    ELSE IF ends_with(project, DASH) THEN Err(ERR_PROJECT_TRAILING_DASH)
    ELSE IF ~ \A i \in 1..Len(project) :
                 \/ is_ascii_lowercase(project[i])
                 \/ is_digit10(project[i])
                 \/ project[i] = DASH
         THEN Err(ERR_PROJECT_CHARS)
    ELSE LET first == first_char_unwrap(project)
         IN  IF first.kind = "Panic" THEN Panic
             ELSE IF ~ is_ascii_lowercase(first.val[1]) THEN Err(ERR_PROJECT_START)
             ELSE Ok(<<>>)

\* Result::and: the argument is evaluated before the call, so both
\* validators always run; the author's error takes precedence
\* variant: the project's error takes precedence
result_and_project_first(a, b) ==
    IF a.kind = "Panic" \/ b.kind = "Panic" THEN Panic
    ELSE IF b.kind = "Err" THEN b
    ELSE a

result_and(a, b) ==
    IF a.kind = "Panic" \/ b.kind = "Panic" THEN Panic
    ELSE IF a.kind = "Err" THEN a
    ELSE b

\* variant: an empty segment is reported as a malformed name
validate_package_name_empty_is_malformed(name) ==
    LET parts == split(trim(name), SLASH)
    IN  IF Len(parts) = 2 /\ parts[1] # <<>> /\ parts[2] # <<>>
        THEN LET r == result_and(validate_author(parts[1]),
                                 validate_project(parts[2]))
             IN  IF r.kind = "Ok" THEN Ok(trim(name)) ELSE r
        ELSE Err(ERR_MALFORMED)

\* variant: the accepted name is returned as typed
validate_package_name_untrimmed(name) ==
    LET parts == split(trim(name), SLASH)
    IN  IF Len(parts) = 2
        THEN LET r == result_and(validate_author(parts[1]),
                                 validate_project(parts[2]))
             IN  IF r.kind = "Ok" THEN Ok(name) ELSE r
        ELSE Err(ERR_MALFORMED)

validate_package_name(name) ==
    LET parts == split(trim(name), SLASH)
    IN  IF Len(parts) = 2
        THEN LET r == result_and(validate_author(parts[1]),
                                 validate_project(parts[2]))
             IN  IF r.kind = "Ok" THEN Ok(trim(name)) ELSE r
        ELSE Err(ERR_MALFORMED)

APPROVED_LICENSES ==
    <<
       <<65, 70, 76, 45, 49, 46, 49>>,  \* "AFL-1.1"
       <<65, 70, 76, 45, 49, 46, 50>>,  \* "AFL-1.2"
       <<65, 70, 76, 45, 50, 46, 48>>,  \* "AFL-2.0"
       <<65, 70, 76, 45, 50, 46, 49>>,  \* "AFL-2.1"
       <<65, 70, 76, 45, 51, 46, 48>>,  \* "AFL-3.0"
       <<65, 80, 76, 45, 49, 46, 48>>,  \* "APL-1.0"
       <<65, 112, 97, 99, 104, 101, 45, 49, 46, 49>>,  \* "Apache-1.1"
       <<65, 112, 97, 99, 104, 101, 45, 50, 46, 48>>,  \* "Apache-2.0"
       <<65, 80, 83, 76, 45, 49, 46, 48>>,  \* "APSL-1.0"
       <<65, 80, 83, 76, 45, 49, 46, 49>>,  \* "APSL-1.1"
       <<65, 80, 83, 76, 45, 49, 46, 50>>,  \* "APSL-1.2"
       <<65, 80, 83, 76, 45, 50, 46, 48>>,  \* "APSL-2.0"
       <<65, 114, 116, 105, 115, 116, 105, 99, 45, 49, 46, 48>>,  \* "Artistic-1.0"
       <<65, 114, 116, 105, 115, 116, 105, 99, 45, 49, 46, 48, 45, 80, 101, 114, 108>>,  \* "Artistic-1.0-Perl"
       <<65, 114, 116, 105, 115, 116, 105, 99, 45, 49, 46, 48, 45, 99, 108, 56>>,  \* "Artistic-1.0-cl8"
       <<65, 114, 116, 105, 115, 116, 105, 99, 45, 50, 46, 48>>,  \* "Artistic-2.0"
       <<65, 65, 76>>,  \* "AAL"
       <<66, 83, 76, 45, 49, 46, 48>>,  \* "BSL-1.0"
       <<66, 83, 68, 45, 50, 45, 67, 108, 97, 117, 115, 101>>,  \* "BSD-2-Clause"
       <<66, 83, 68, 45, 51, 45, 67, 108, 97, 117, 115, 101>>,  \* "BSD-3-Clause"
       <<48, 66, 83, 68>>,  \* "0BSD"
       <<67, 69, 67, 73, 76, 76, 45, 50, 46, 49>>,  \* "CECILL-2.1"
       <<67, 78, 82, 73, 45, 80, 121, 116, 104, 111, 110>>,  \* "CNRI-Python"
       <<67, 68, 68, 76, 45, 49, 46, 48>>,  \* "CDDL-1.0"
       <<67, 80, 65, 76, 45, 49, 46, 48>>,  \* "CPAL-1.0"
       <<67, 80, 76, 45, 49, 46, 48>>,  \* "CPL-1.0"
       <<67, 65, 84, 79, 83, 76, 45, 49, 46, 49>>,  \* "CATOSL-1.1"
       <<67, 85, 65, 45, 79, 80, 76, 45, 49, 46, 48>>,  \* "CUA-OPL-1.0"
       <<69, 80, 76, 45, 49, 46, 48>>,  \* "EPL-1.0"
       <<69, 67, 76, 45, 49, 46, 48>>,  \* "ECL-1.0"
       <<69, 67, 76, 45, 50, 46, 48>>,  \* "ECL-2.0"
       <<69, 70, 76, 45, 49, 46, 48>>,  \* "EFL-1.0"
       <<69, 70, 76, 45, 50, 46, 48>>,  \* "EFL-2.0"
       <<69, 110, 116, 101, 115, 115, 97>>,  \* "Entessa"
       <<69, 85, 68, 97, 116, 97, 103, 114, 105, 100>>,  \* "EUDatagrid"
       <<69, 85, 80, 76, 45, 49, 46, 49>>,  \* "EUPL-1.1"
       <<70, 97, 105, 114>>,  \* "Fair"
       <<70, 114, 97, 109, 101, 119, 111, 114, 120, 45, 49, 46, 48>>,  \* "Frameworx-1.0"
       <<65, 71, 80, 76, 45, 51, 46, 48>>,  \* "AGPL-3.0"
       <<71, 80, 76, 45, 50, 46, 48>>,  \* "GPL-2.0"
       <<71, 80, 76, 45, 51, 46, 48>>,  \* "GPL-3.0"
       <<76, 71, 80, 76, 45, 50, 46, 49>>,  \* "LGPL-2.1"
       <<76, 71, 80, 76, 45, 51, 46, 48>>,  \* "LGPL-3.0"
       <<76, 71, 80, 76, 45, 50, 46, 48>>,  \* "LGPL-2.0"
       <<72, 80, 78, 68>>,  \* "HPND"
       <<73, 80, 76, 45, 49, 46, 48>>,  \* "IPL-1.0"
       <<73, 110, 116, 101, 108>>,  \* "Intel"
       <<73, 80, 65>>,  \* "IPA"
       <<73, 83, 67>>,  \* "ISC"
       <<76, 80, 80, 76, 45, 49, 46, 51, 99>>,  \* "LPPL-1.3c"
       <<76, 105, 76, 105, 81, 45, 80, 45, 49, 46, 49>>,  \* "LiLiQ-P-1.1"
       <<76, 105, 76, 105, 81, 45, 82, 112, 108, 117, 115, 45, 49, 46, 49>>,  \* "LiLiQ-Rplus-1.1"
       <<76, 105, 76, 105, 81, 45, 82, 45, 49, 46, 49>>,  \* "LiLiQ-R-1.1"
       <<76, 80, 76, 45, 49, 46, 48, 50>>,  \* "LPL-1.02"
       <<76, 80, 76, 45, 49, 46, 48>>,  \* "LPL-1.0"
       <<77, 83, 45, 80, 76>>,  \* "MS-PL"
       <<77, 83, 45, 82, 76>>,  \* "MS-RL"
       <<77, 105, 114, 79, 83>>,  \* "MirOS"
       <<77, 73, 84>>,  \* "MIT"
       <<77, 111, 116, 111, 115, 111, 116, 111>>,  \* "Motosoto"
       <<77, 80, 76, 45, 49, 46, 48>>,  \* "MPL-1.0"
       <<77, 80, 76, 45, 49, 46, 49>>,  \* "MPL-1.1"
       <<77, 80, 76, 45, 50, 46, 48>>,  \* "MPL-2.0"
       <<77, 80, 76, 45, 50, 46, 48, 45, 110, 111, 45, 99, 111, 112, 121, 108, 101, 102, 116, 45, 101, 120, 99, 101, 112, 116, 105, 111, 110>>,  \* "MPL-2.0-no-copyleft-exception"
       <<77, 117, 108, 116, 105, 99, 115>>,  \* "Multics"
       <<78, 65, 83, 65, 45, 49, 46, 51>>,  \* "NASA-1.3"
       <<78, 97, 117, 109, 101, 110>>,  \* "Naumen"
       <<78, 71, 80, 76>>,  \* "NGPL"
       <<78, 111, 107, 105, 97>>,  \* "Nokia"
       <<78, 80, 79, 83, 76, 45, 51, 46, 48>>,  \* "NPOSL-3.0"
       <<78, 84, 80>>,  \* "NTP"
       <<79, 67, 76, 67, 45, 50, 46, 48>>,  \* "OCLC-2.0"
       <<79, 71, 84, 83, 76>>,  \* "OGTSL"
       <<79, 83, 76, 45, 49, 46, 48>>,  \* "OSL-1.0"
       <<79, 83, 76, 45, 50, 46, 48>>,  \* "OSL-2.0"
       <<79, 83, 76, 45, 50, 46, 49>>,  \* "OSL-2.1"
       <<79, 83, 76, 45, 51, 46, 48>>,  \* "OSL-3.0"
       <<79, 83, 69, 84, 45, 80, 76, 45, 50, 46, 49>>,  \* "OSET-PL-2.1"
       <<80, 72, 80, 45, 51, 46, 48>>,  \* "PHP-3.0"
       <<80, 111, 115, 116, 103, 114, 101, 83, 81, 76>>,  \* "PostgreSQL"
       <<80, 121, 116, 104, 111, 110, 45, 50, 46, 48>>,  \* "Python-2.0"
       <<81, 80, 76, 45, 49, 46, 48>>,  \* "QPL-1.0"
       <<82, 80, 83, 76, 45, 49, 46, 48>>,  \* "RPSL-1.0"
       <<82, 80, 76, 45, 49, 46, 49>>,  \* "RPL-1.1"
       <<82, 80, 76, 45, 49, 46, 53>>,  \* "RPL-1.5"
       <<82, 83, 67, 80, 76>>,  \* "RSCPL"
       <<79, 70, 76, 45, 49, 46, 49>>,  \* "OFL-1.1"
       <<83, 105, 109, 80, 76, 45, 50, 46, 48>>,  \* "SimPL-2.0"
       <<83, 108, 101, 101, 112, 121, 99, 97, 116>>,  \* "Sleepycat"
       <<83, 73, 83, 83, 76>>,  \* "SISSL"
       <<83, 80, 76, 45, 49, 46, 48>>,  \* "SPL-1.0"
       <<87, 97, 116, 99, 111, 109, 45, 49, 46, 48>>,  \* "Watcom-1.0"
       <<85, 80, 76, 45, 49, 46, 48>>,  \* "UPL-1.0"
       <<78, 67, 83, 65>>,  \* "NCSA"
       <<86, 83, 76, 45, 49, 46, 48>>,  \* "VSL-1.0"
       <<87, 51, 67>>,  \* "W3C"
       <<88, 110, 101, 116>>,  \* "Xnet"
       <<90, 108, 105, 98>>,  \* "Zlib"
       <<90, 80, 76, 45, 50, 46, 48>>   \* "ZPL-2.0"
    >>

to_ascii_lowercase(s) ==
    [i \in 1..Len(s) |-> IF is_ascii_uppercase(s[i]) THEN s[i] + 32 ELSE s[i]]

\* variant: the comparison ignores ASCII case
license_contains_ignore_case(input) ==
    \E i \in 1..Len(APPROVED_LICENSES) :
        to_ascii_lowercase(APPROVED_LICENSES[i]) = to_ascii_lowercase(input)

\* slice::contains: exact comparison of the bytes
license_contains(input) ==
    \E i \in 1..Len(APPROVED_LICENSES) : APPROVED_LICENSES[i] = input

\* the closure given to until_valid on the "other..." path
validate_license(input) ==
    IF license_contains(input) THEN Ok(input) ELSE Err(ERR_LICENSE)

(***************************************************************************)
(* What the user may type.                                                 *)
(***************************************************************************)
Rep(c, n) == [i \in 1..n |-> c]

Alphabet == {CH.lower_a, CH.upper_b, CH.digit_1, DASH, SLASH, CH.space}

ShortStrings == UNION {[1..n -> Alphabet] : n \in 0..MaxLen}

\* author and project segments that reach the rules short strings cannot
Segments ==
    { <<>>,
      <<CH.lower_a>>,
      <<CH.lower_a, DASH, CH.lower_a>>,
      <<CH.lower_a, DASH, DASH, CH.lower_a>>,
      <<CH.lower_a, DASH, DASH>>,
      <<DASH, CH.lower_a>>,
      <<CH.digit_1, CH.lower_a>>,
      <<CH.upper_b, CH.lower_a>>,
      <<CH.lower_a, CH.underscore>>,
      <<CH.e_acute>>,
      <<CH.lower_a, CH.space, CH.lower_a>>,
      Rep(CH.lower_a, MaxAuthorLen),
      Rep(CH.lower_a, MaxAuthorLen + 1),
      Rep(CH.e_acute, (MaxAuthorLen + 1) \div 2),
      Rep(CH.lower_a, MaxAuthorLen - 1) \o <<DASH>>,
      Rep(DASH, MaxAuthorLen + 1) }

Pads == { <<<<>>, <<>>>>, <<<<CH.space>>, <<CH.newline, CH.nbsp>>>> }

LongNames ==
    { pad[1] \o a \o <<SLASH>> \o p \o pad[2] :
        a \in Segments, p \in Segments, pad \in Pads }
    \cup { a \o <<SLASH>> \o a \o <<SLASH>> \o a : a \in Segments }

NameInputs == ShortStrings \cup LongNames

SummaryLens ==
    {0}
    \cup ((MaxSummaryLen \div 2)..(MaxSummaryLen \div 2 + Slack))
    \cup (MaxSummaryLen..(MaxSummaryLen + Slack))

SummaryInputs == { Rep(c, n) : c \in {CH.lower_a, CH.e_acute}, n \in SummaryLens }

\* variant: a shortcut that is not an SPDX identifier of the list
license_options_unlisted ==
    << <<66, 83, 68, 45, 51, 45, 67, 108, 97, 117, 115, 101>>,  \* "BSD-3-Clause"
       <<109, 105, 116>>,                                       \* "mit"
       <<111, 116, 104, 101, 114, 46, 46, 46>> >>               \* "other..."

\* the items of the license menu
license_options ==
    << <<66, 83, 68, 45, 51, 45, 67, 108, 97, 117, 115, 101>>,  \* "BSD-3-Clause"
       <<77, 73, 84>>,                                          \* "MIT"
       <<111, 116, 104, 101, 114, 46, 46, 46>> >>               \* "other..."

LicenseInputs ==
    Range(APPROVED_LICENSES)
    \cup Range(license_options)
    \cup { to_ascii_lowercase(license_options[i]) : i \in 1..2 }
    \cup { <<CH.space>> \o license_options[i] : i \in 1..2 }
    \cup { license_options[i] \o <<CH.newline>> : i \in 1..2 }
    \cup { <<>> }

(***************************************************************************)
(* The program state.                                                      *)
(***************************************************************************)
VARIABLES
    pc,        \* the statement the program is at
    loop,      \* the state of the running until_valid call
    res,       \* until_valid's local `res`
    entered,   \* the string the last prompt returned, until the validator rejects it
    prompts,   \* prompts issued by the running until_valid call
    printed,   \* error lines printed by the running until_valid call
    lastErr,   \* the last error line printed by the running call
    name,      \* create_package's local `name`
    summary,   \* create_package's local `summary`
    license,   \* create_package's local `license`
    proj,      \* the Project value, once constructed
    file,      \* elm.json in the working directory
    result     \* what the command returned

vars == <<pc, loop, res, entered, prompts, printed, lastErr,
          name, summary, license, proj, file, result>>

\* a local that has not been assigned yet
None == <<0 - 1>>

NoProject == [type |-> "none", name |-> None, summary |-> None, license |-> None]

\* content of an elm.json that was there before the command ran
Preexisting == [type |-> "preexisting", name |-> None, summary |-> None, license |-> None]

\* content left behind when serialisation fails after the file was created
Truncated == [type |-> "truncated", name |-> None, summary |-> None, license |-> None]

Application_new == [type |-> "application", name |-> None, summary |-> None, license |-> None]

Package_new(n, s, l) == [type |-> "package", name |-> n, summary |-> s, license |-> l]

Absent == [exists |-> FALSE, content |-> NoProject]

Init ==
    /\ pc = "run"
    /\ loop = "Idle"
    /\ res = None
    /\ entered = None
    /\ prompts = 0
    /\ printed = 0
    /\ lastErr = ""
    /\ name = None
    /\ summary = None
    /\ license = None
    /\ proj = NoProject
    /\ file \in {Absent, [exists |-> TRUE, content |-> Preexisting]}
    /\ result = "running"

\* the validator each until_valid call of create_package is given
validate(field, input) ==
    CASE field = "name" -> validate_package_name(input)
      [] field = "summary" -> validate_summary(input)
      [] field = "license" -> validate_license(input)

Inputs(field) ==
    CASE field = "name" -> NameInputs
      [] field = "summary" -> SummaryInputs
      [] field = "license" -> LicenseInputs

Fields == {"name", "summary", "license"}

\* create_package calls until_valid
EnterLoop ==
    /\ loop' = "AwaitingInput"
    /\ res' = None
    /\ entered' = None
    /\ prompts' = 0
    /\ printed' = 0
    /\ lastErr' = ""

\* until_valid has returned: its locals are gone
LeaveLoop ==
    /\ loop' = "Idle"
    /\ res' = None
    /\ entered' = None
    /\ prompts' = 0
    /\ printed' = 0
    /\ lastErr' = ""

\* `?` on a failed interaction, and every other early return with an error
Exit(r) ==
    /\ pc' = "exit"
    /\ result' = r

(***************************************************************************)
(* run                                                                     *)
(***************************************************************************)
RunApplication ==
    /\ pc = "run"
    /\ proj' = Application_new
    /\ pc' = "create_elm_json"
    /\ UNCHANGED <<loop, res, entered, prompts, printed, lastErr,
                   name, summary, license, file, result>>

RunPackage ==
    /\ pc = "run"
    /\ pc' = "name"
    /\ EnterLoop
    /\ UNCHANGED <<name, summary, license, proj, file, result>>

RunSelectFails ==
    /\ pc = "run"
    /\ Exit("Err")
    /\ UNCHANGED <<loop, res, entered, prompts, printed, lastErr,
                   name, summary, license, proj, file>>

(***************************************************************************)
(* until_valid                                                             *)
(***************************************************************************)
Prompt ==
    /\ pc \in Fields
    /\ loop = "AwaitingInput"
    /\ prompts < MaxPrompts
    /\ \E input \in Inputs(pc) : res' = input /\ entered' = input
    /\ prompts' = prompts + 1
    /\ loop' = "Validating"
    /\ UNCHANGED <<pc, printed, lastErr, name, summary, license,
                   proj, file, result>>

PromptFails ==
    /\ pc \in Fields
    /\ loop = "AwaitingInput"
    /\ loop' = "Failed"
    /\ Exit("Err")
    /\ UNCHANGED <<res, entered, prompts, printed, lastErr, name, summary, license,
                   proj, file>>

\* variant: the loop keeps what the user typed instead of the validator's value
Validate_keeps_input ==
    /\ pc \in Fields
    /\ loop = "Validating"
    /\ LET r == validate(pc, res)
       IN  CASE r.kind = "Ok" ->
                  /\ res' = res
                  /\ loop' = "Accepted"
                  /\ UNCHANGED <<pc, entered, printed, lastErr, result>>
             [] r.kind = "Err" ->
                  /\ printed' = printed + 1
                  /\ lastErr' = r.err
                  /\ loop' = "AwaitingInput"
                  /\ res' = None
                  /\ entered' = None
                  /\ UNCHANGED <<pc, result>>
             [] r.kind = "Panic" ->
                  /\ Exit("Panic")
                  /\ UNCHANGED <<loop, res, entered, printed, lastErr>>
    /\ UNCHANGED <<prompts, name, summary, license, proj, file>>

Validate ==
    /\ pc \in Fields
    /\ loop = "Validating"
    /\ LET r == validate(pc, res)
       IN  CASE r.kind = "Ok" ->
                  /\ res' = r.val
                  /\ loop' = "Accepted"
                  /\ UNCHANGED <<pc, entered, printed, lastErr, result>>
             [] r.kind = "Err" ->
                  /\ printed' = printed + 1
                  /\ lastErr' = r.err
                  /\ loop' = "AwaitingInput"
                  /\ res' = None
                  /\ entered' = None
                  /\ UNCHANGED <<pc, result>>
             [] r.kind = "Panic" ->
                  /\ Exit("Panic")
                  /\ UNCHANGED <<loop, res, entered, printed, lastErr>>
    /\ UNCHANGED <<prompts, name, summary, license, proj, file>>

\* until_valid returns Ok(res) and create_package binds it
ReturnName ==
    /\ pc = "name"
    /\ loop = "Accepted"
    /\ name' = res
    /\ pc' = "summary"
    /\ EnterLoop
    /\ UNCHANGED <<summary, license, proj, file, result>>

ReturnSummary ==
    /\ pc = "summary"
    /\ loop = "Accepted"
    /\ summary' = res
    /\ pc' = "license_select"
    /\ LeaveLoop
    /\ UNCHANGED <<name, license, proj, file, result>>

ReturnLicense ==
    /\ pc = "license"
    /\ loop = "Accepted"
    /\ license' = res
    /\ pc' = "Package_new"
    /\ LeaveLoop
    /\ UNCHANGED <<name, summary, proj, file, result>>

(***************************************************************************)
(* create_package                                                          *)
(***************************************************************************)
LicenseShortcut ==
    /\ pc = "license_select"
    /\ \E idx \in 1..Len(license_options) :
          /\ license_options[idx] # license_options[3]
          /\ license' = license_options[idx]
    /\ pc' = "Package_new"
    /\ UNCHANGED <<loop, res, entered, prompts, printed, lastErr, name, summary,
                   proj, file, result>>

LicenseOther ==
    /\ pc = "license_select"
    /\ pc' = "license"
    /\ EnterLoop
    /\ UNCHANGED <<name, summary, license, proj, file, result>>

LicenseSelectFails ==
    /\ pc = "license_select"
    /\ Exit("Err")
    /\ UNCHANGED <<loop, res, entered, prompts, printed, lastErr, name, summary,
                   license, proj, file>>

NewPackage ==
    /\ pc = "Package_new"
    /\ proj' = Package_new(name, summary, license)
    /\ pc' = "create_elm_json"
    /\ UNCHANGED <<loop, res, entered, prompts, printed, lastErr, name, summary,
                   license, file, result>>

(***************************************************************************)
(* create_elm_json                                                         *)
(***************************************************************************)
\* variant: the file is opened with create(true), which truncates
open_create_truncate(f) == Ok(<<>>)

\* OpenOptions::new().write(true).create_new(true).open("elm.json")
open_create_new(f) == IF f.exists THEN Err("AlreadyExists") ELSE Ok(<<>>)

CreateElmJson ==
    /\ pc = "create_elm_json"
    /\ IF open_create_new(file).kind = "Err"
       THEN /\ Exit("Err")
            /\ UNCHANGED file
       ELSE \E written \in BOOLEAN :
               IF written
               THEN /\ file' = [exists |-> TRUE, content |-> proj]
                    /\ Exit("Ok")
               ELSE /\ file' = [exists |-> TRUE, content |-> Truncated]
                    /\ Exit("Err")
    /\ UNCHANGED <<loop, res, entered, prompts, printed, lastErr, name, summary,
                   license, proj>>

Next ==
    \/ RunApplication
    \/ RunPackage
    \/ RunSelectFails
    \/ Prompt
    \/ PromptFails
    \/ Validate
    \/ ReturnName
    \/ ReturnSummary
    \/ ReturnLicense
    \/ LicenseShortcut
    \/ LicenseOther
    \/ LicenseSelectFails
    \/ NewPackage
    \/ CreateElmJson

Spec == Init /\ [][Next]_vars

(***************************************************************************)
(* The rules of the specification, stated without the validators.          *)
(***************************************************************************)
AsciiLowerSet == 97..122
AsciiUpperSet == 65..90
AsciiDigitSet == 48..57

IsAsciiString(s) == \A i \in 1..Len(s) : s[i] < 128

\* s without its leading and trailing whitespace
Trimmed(s) ==
    IF \A i \in 1..Len(s) : is_whitespace(s[i]) THEN <<>>
    ELSE LET lo == CHOOSE i \in 1..Len(s) :
                      /\ ~ is_whitespace(s[i])
                      /\ \A j \in 1..(i - 1) : is_whitespace(s[j])
             hi == CHOOSE i \in 1..Len(s) :
                      /\ ~ is_whitespace(s[i])
                      /\ \A j \in (i + 1)..Len(s) : is_whitespace(s[j])
         IN  SubSeq(s, lo, hi)

SlashesAt(t) == {i \in 1..Len(t) : t[i] = SLASH}

HasTwoSegments(s) == Cardinality(SlashesAt(Trimmed(s))) = 1

TheSlash(t) == CHOOSE i \in 1..Len(t) : t[i] = SLASH

AuthorOf(s) == LET t == Trimmed(s) IN SubSeq(t, 1, TheSlash(t) - 1)

ProjectOf(s) == LET t == Trimmed(s) IN SubSeq(t, TheSlash(t) + 1, Len(t))

HasDoubleDash(x) == \E i \in 1..(Len(x) - 1) : x[i] = DASH /\ x[i + 1] = DASH

AuthorRule(a) ==
    /\ a # <<>>
    /\ a[1] # DASH
    /\ a[Len(a)] # DASH
    /\ ~ HasDoubleDash(a)
    /\ Len(a) <= 39
    /\ \A i \in 1..Len(a) :
          a[i] \in AsciiLowerSet \cup AsciiUpperSet \cup AsciiDigitSet \cup {DASH}

ProjectRule(q) ==
    /\ q # <<>>
    /\ ~ HasDoubleDash(q)
    /\ q[Len(q)] # DASH
    /\ \A i \in 1..Len(q) : q[i] \in AsciiLowerSet \cup AsciiDigitSet \cup {DASH}
    /\ q[1] \in AsciiLowerSet

NameRule(s) ==
    /\ HasTwoSegments(s)
    /\ AuthorRule(AuthorOf(s))
    /\ ProjectRule(ProjectOf(s))

HasTwoNonEmptySegments(s) ==
    /\ HasTwoSegments(s)
    /\ AuthorOf(s) # <<>>
    /\ ProjectOf(s) # <<>>

\* the running until_valid call is about to validate `res` for this field
Validating(field) == pc = field /\ loop = "Validating"

\* the step just taken accepted, or rejected, the input
Accepts == loop' = "Accepted"

Rejects == loop' = "AwaitingInput" /\ printed' = printed + 1

(***************************************************************************)
(* C1: an ASCII input is accepted as a package name exactly when its       *)
(* trimmed form is author/project with an author and a project that        *)
(* satisfy their rules; it is rejected otherwise.                          *)
(***************************************************************************)
C1_NameAcceptedIffRules ==
    [][ (Validating("name") /\ IsAsciiString(res))
          => /\ Accepts <=> NameRule(res)
             /\ Rejects <=> ~ NameRule(res) ]_vars

\* an author of 40 chars was rejected as too long, then one of 39 accepted
C1_Witness ==
    /\ pc = "name"
    /\ loop = "Accepted"
    /\ lastErr = ERR_AUTHOR_LONG
    /\ entered = Rep(CH.lower_a, 39) \o <<SLASH, CH.lower_a>>
    /\ res = entered

(***************************************************************************)
(* C2: a summary is accepted exactly when it has at most 80 characters,    *)
(* counted as characters and not as encoded bytes.                         *)
(***************************************************************************)
C2_SummaryAcceptedIffCharCount ==
    [][ Validating("summary") => (Accepts <=> chars_count(res) <= 80) ]_vars

(***************************************************************************)
(* C3: free-text license entry accepts exactly the members of              *)
(* APPROVED_LICENSES, compared as typed, and returns the input unchanged;  *)
(* "MIT" is accepted and "mit" is rejected.                                *)
(***************************************************************************)
C3_LicenseExactMember ==
    [][ Validating("license")
          => /\ Accepts <=> res \in Range(APPROVED_LICENSES)
             /\ Rejects <=> res \notin Range(APPROVED_LICENSES)
             /\ Accepts => res' = res
             /\ res = <<77, 73, 84>> => Accepts
             /\ res = <<109, 105, 116>> => Rejects /\ lastErr' = ERR_LICENSE ]_vars

\* "mit" was rejected, then "MIT" accepted
C3_Witness ==
    /\ pc = "license"
    /\ loop = "Accepted"
    /\ printed = 1
    /\ lastErr = ERR_LICENSE
    /\ entered = <<77, 73, 84>>
    /\ res = entered

(***************************************************************************)
(* C4: a Package is constructed only from an accepted name, summary and    *)
(* license, on either license path: its name satisfies                     *)
(* validate_package_name, its summary has at most 80 characters and its    *)
(* license is a member of APPROVED_LICENSES; none exists while a field is  *)
(* still being asked for.                                                  *)
(***************************************************************************)
C4_PackageOnlyFromValidFields ==
    /\ pc \in {"run", "name", "summary", "license_select", "license", "Package_new"}
          => proj.type # "package"
    /\ proj.type = "package"
          => /\ loop = "Idle"
             /\ proj.name = name /\ proj.summary = summary /\ proj.license = license
             /\ validate_package_name(proj.name).kind = "Ok"
             /\ NameRule(proj.name)
             /\ chars_count(proj.summary) <= 80
             /\ proj.license \in Range(APPROVED_LICENSES)
    /\ file.content.type = "package" => file.content = proj

\* a Package built after a rejected name, with the license chosen from the menu
C4_Witness ==
    /\ proj.type = "package"
    /\ pc = "create_elm_json"
    /\ proj.license = license_options[2]
    /\ proj.summary = Rep(CH.lower_a, 80)
    /\ proj.name = <<CH.lower_a, DASH, CH.lower_a, SLASH, CH.lower_a, DASH, CH.lower_a>>

(***************************************************************************)
(* C5 as stated: every input whose trimmed form is not two non-empty       *)
(* segments is rejected with the malformed-name error.                     *)
(***************************************************************************)
C5_Original ==
    [][ (Validating("name") /\ ~ HasTwoNonEmptySegments(res))
          => Rejects /\ lastErr' = ERR_MALFORMED ]_vars

(***************************************************************************)
(* C5 as amended: every input whose trimmed form is not two non-empty      *)
(* segments is rejected; the error is the malformed-name error exactly     *)
(* when the number of segments is not two; with two segments and an empty  *)
(* author it is the author-empty error; with a non-empty author and an     *)
(* empty project it is the project-empty error when the author is valid    *)
(* and an error of the author otherwise.                                   *)
(***************************************************************************)
C5_MalformedOnlyForSegmentCount ==
    [][ (Validating("name") /\ ~ HasTwoNonEmptySegments(res))
          => /\ Rejects
             /\ lastErr' = ERR_MALFORMED <=> ~ HasTwoSegments(res)
             /\ (HasTwoSegments(res) /\ AuthorOf(res) = <<>>)
                   => lastErr' = ERR_AUTHOR_EMPTY
             /\ (HasTwoSegments(res) /\ AuthorOf(res) # <<>> /\ AuthorRule(AuthorOf(res)))
                   => lastErr' = ERR_PROJECT_EMPTY
             /\ (HasTwoSegments(res) /\ AuthorOf(res) # <<>> /\ ~ AuthorRule(AuthorOf(res)))
                   => lastErr' \in {ERR_AUTHOR_LEADING_DASH, ERR_AUTHOR_TRAILING_DASH,
                                   ERR_AUTHOR_DOUBLE_DASH, ERR_AUTHOR_LONG,
                                   ERR_AUTHOR_CHARS} ]_vars

\* a "/proj"-shaped input, an empty author, was rejected as such
C5_Witness ==
    /\ pc = "name"
    /\ loop = "AwaitingInput"
    /\ printed = 1
    /\ lastErr = ERR_AUTHOR_EMPTY

(***************************************************************************)
(* C6: an input with two segments that breaks a rule gets exactly one      *)
(* error, that of the first rule broken: the author's rules first, in the  *)
(* order empty, leading dash, trailing dash, double dash, longer than 39,  *)
(* other character; the project's rules, in the order empty, double dash,  *)
(* trailing dash, other character, first character, only for a valid       *)
(* author.  The length is the one str::len measures.                       *)
(***************************************************************************)
FirstAuthorError(a) ==
    CASE a = <<>> -> ERR_AUTHOR_EMPTY
      [] a # <<>> /\ a[1] = DASH -> ERR_AUTHOR_LEADING_DASH
      [] a # <<>> /\ a[1] # DASH /\ a[Len(a)] = DASH -> ERR_AUTHOR_TRAILING_DASH
      [] OTHER ->
           IF HasDoubleDash(a) THEN ERR_AUTHOR_DOUBLE_DASH
           ELSE IF str_len(a) > 39 THEN ERR_AUTHOR_LONG
           ELSE IF \E i \in 1..Len(a) :
                      a[i] \notin AsciiLowerSet \cup AsciiUpperSet
                                    \cup AsciiDigitSet \cup {DASH}
                THEN ERR_AUTHOR_CHARS
           ELSE ""

FirstProjectError(q) ==
    CASE q = <<>> -> ERR_PROJECT_EMPTY
      [] q # <<>> /\ HasDoubleDash(q) -> ERR_PROJECT_DOUBLE_DASH
      [] q # <<>> /\ ~ HasDoubleDash(q) /\ q[Len(q)] = DASH -> ERR_PROJECT_TRAILING_DASH
      [] OTHER ->
           IF \E i \in 1..Len(q) :
                 q[i] \notin AsciiLowerSet \cup AsciiDigitSet \cup {DASH}
           THEN ERR_PROJECT_CHARS
           ELSE IF q[1] \notin AsciiLowerSet THEN ERR_PROJECT_START
           ELSE ""

FirstError(s) ==
    LET authorError == FirstAuthorError(AuthorOf(s))
    IN  IF authorError # "" THEN authorError
        ELSE FirstProjectError(ProjectOf(s))

C7_NeverOverwrites ==
    [][ /\ file.exists => file' = file
        /\ file' # file => pc = "create_elm_json" /\ ~ file.exists
        /\ (pc = "create_elm_json" /\ file.exists)
              => pc' = "exit" /\ result' = "Err"
        /\ pc = "exit" => UNCHANGED vars ]_vars

\* a validated package met an existing elm.json
C7_Witness ==
    /\ pc = "exit"
    /\ result = "Err"
    /\ proj.type = "package"
    /\ file = [exists |-> TRUE, content |-> Preexisting]

(***************************************************************************)
(* C8: an accepted package name is returned as the input without its       *)
(* leading and trailing whitespace and otherwise unchanged; validating the *)
(* returned value again accepts it and returns it unchanged.               *)
(***************************************************************************)
C8_ReturnsTrimmedInput ==
    [][ (Validating("name") /\ Accepts)
          => /\ res' = Trimmed(res)
             /\ ~ is_whitespace(res'[1])
             /\ ~ is_whitespace(res'[Len(res')])
             /\ validate_package_name(res') = Ok(res') ]_vars

\* an input with whitespace on both sides was accepted
C8_Witness ==
    /\ pc = "name"
    /\ loop = "Accepted"
    /\ entered = <<CH.space, CH.lower_a, DASH, CH.lower_a, SLASH, CH.lower_a, CH.newline, CH.nbsp>>
    /\ res = <<CH.lower_a, DASH, CH.lower_a, SLASH, CH.lower_a>>

(***************************************************************************)
(* C9: until_valid moves AwaitingInput -> Validating -> AwaitingInput or   *)
(* Accepted; a rejection prints its error once and is followed by one new  *)
(* prompt; the loop returns the validator's value for the first accepted   *)
(* input; its only other exit is a failed prompt, which yields an error    *)
(* and no value.                                                           *)
(***************************************************************************)
C9_Step ==
    /\ (pc \in Fields /\ loop = "AwaitingInput")
          => \/ /\ loop' = "Validating"
                /\ prompts' = prompts + 1
                /\ printed' = printed
                /\ pc' = pc
             \/ /\ loop' = "Failed"
                /\ pc' = "exit"
                /\ result' = "Err"
                /\ <<name, summary, license, proj, file>>'
                      = <<name, summary, license, proj, file>>
    /\ (pc \in Fields /\ loop = "Validating")
          => /\ pc' = pc
             /\ prompts' = prompts
             /\ \/ /\ validate(pc, res).kind = "Ok"
                   /\ loop' = "Accepted"
                   /\ res' = validate(pc, res).val
                   /\ printed' = printed
                \/ /\ validate(pc, res).kind = "Err"
                   /\ loop' = "AwaitingInput"
                   /\ printed' = printed + 1
                   /\ lastErr' = validate(pc, res).err
    /\ (pc \in Fields /\ loop = "Accepted")
          => /\ pc' \notin {pc, "exit"}
             /\ pc = "name" => name' = res
             /\ pc = "summary" => summary' = res
             /\ pc = "license" => license' = res
    /\ (pc \in Fields /\ pc' # pc)
          => loop = "Accepted" \/ loop' = "Failed"

C9_RetryLoop == [][C9_Step]_vars

\* the second input was accepted after the first was rejected
C9_Witness ==
    /\ pc = "summary"
    /\ loop = "Accepted"
    /\ prompts = 2
    /\ printed = 1
    /\ lastErr = ERR_SUMMARY_LONG
    /\ res = Rep(CH.lower_a, 80)

(***************************************************************************)
(* C10: the validators return a value or an error for every input and      *)
(* never panic; validate_project unwraps the first character of a          *)
(* non-empty project only.                                                 *)
(***************************************************************************)
IsResult(r) == r.kind \in {"Ok", "Err"}

SegmentsOf(s) == Range(split(trim(s), SLASH))

C10_ValidatorsTotal ==
    /\ result # "Panic"
    /\ (pc \in Fields /\ loop = "Validating")
          => /\ IsResult(validate_summary(res))
             /\ IsResult(validate_package_name(res))
             /\ IsResult(validate_author(res))
             /\ IsResult(validate_project(res))
             /\ \A seg \in SegmentsOf(res) :
                   /\ IsResult(validate_author(seg))
                   /\ IsResult(validate_project(seg))
                   /\ validate_project(seg).err # ERR_PROJECT_EMPTY
                         => IsResult(first_char_unwrap(seg))

\* an empty project was validated and reported
C10_Witness ==
    /\ pc = "name"
    /\ loop = "AwaitingInput"
    /\ lastErr = ERR_PROJECT_EMPTY
    /\ result = "running"

=============================================================================
